---- MODULE Spec2Model ----
(***************************************************************************)
(* Model of the SD/MMC card SPI emulation of go6502 (src/sd/sd.go).        *)
(*                                                                         *)
(* The card is one record, sd, holding the fields of the Go struct SdCard  *)
(* (the embedded spiState, the PinMap and the four derived masks).  The    *)
(* methods are operators from a card record (and arguments) to a record    *)
(* with the new card and what the method returns or prints.  The actions   *)
(* WriteStep and ReadStep are the host calling Write and Read.             *)
(*                                                                         *)
(* The remaining variables are the history the properties speak about:     *)
(* what kind of call came last, the levels the host presented, the levels  *)
(* Read showed, the exchange lines printed, the bytes loaded after a 0x40. *)
(* They are computed from the levels the host drives and from what the     *)
(* methods return; only cmd looks into the card, at the queue length and   *)
(* the byte just loaded.                                                   *)
(***************************************************************************)
EXTENDS Integers, Sequences, FiniteSets, TLC

(***************************************************************************)
(* Bounds of the exploration.                                              *)
(***************************************************************************)
\* Write is not explored further once the response queue would exceed this.
MaxQueue == 4
\* Number of completed output bytes the harness records after construction.
MaxCompleted == 3

(***************************************************************************)
(* Byte arithmetic (Go uint8 / byte).                                      *)
(***************************************************************************)
ByteMod == 256

Byte == 0 .. 255

\* bit i (0 = least significant) of the non-negative integer b
Bit(b, i) == (b \div (2 ^ i)) % 2

\* the bytes with a single bit set
SingleBit == {1, 2, 4, 8, 16, 32, 64, 128}

RECURSIVE BitAndRec(_, _)
\* a & b on unsigned values, from the least significant bit up
BitAndRec(a, b) ==
    IF a = 0 \/ b = 0 THEN 0
    ELSE ((a % 2) * (b % 2)) + 2 * BitAndRec(a \div 2, b \div 2)

\* Go's a & b on unsigned values; the usual case of a single-bit mask b is
\* read off directly
BitAnd(a, b) ==
    IF b \in SingleBit
    THEN (IF (a \div b) % 2 = 1 THEN b ELSE 0)
    ELSE BitAndRec(a, b)

\* Go's a | b on unsigned values
BitOr(a, b) == a + b - BitAnd(a, b)

\* Go's 1 << n evaluated in uint8 (bits shifted past bit 7 are lost)
Shl1(n) == (2 ^ n) % ByteMod

RECURSIVE BitsToByte(_)
\* the number whose binary digits, most significant first, are the sequence
BitsToByte(bits) ==
    IF bits = << >> THEN 0
    ELSE 2 * BitsToByte(SubSeq(bits, 1, Len(bits) - 1)) + bits[Len(bits)]

(***************************************************************************)
(* The host side of the port: pin maps and the bytes the host writes.      *)
(***************************************************************************)
PinMaps ==
    { [Sclk |-> 0, Mosi |-> 1, Miso |-> 2, Ss |-> 3],
      [Sclk |-> 4, Mosi |-> 6, Miso |-> 7, Ss |-> 5] }

\* the byte with only bit p set, as the host computes it
Pin(p) == 2 ^ p

\* the port byte in which the host drives select, clock and data-out to the
\* given levels and every other bit of the port to the level rest
PortByte(pm, ss, clk, mosi, rest) ==
    (IF ss THEN Pin(pm.Ss) ELSE 0)
    + (IF clk THEN Pin(pm.Sclk) ELSE 0)
    + (IF mosi THEN Pin(pm.Mosi) ELSE 0)
    + (IF rest THEN 255 - Pin(pm.Ss) - Pin(pm.Sclk) - Pin(pm.Mosi) ELSE 0)

(***************************************************************************)
(* The card: src/sd/sd.go.                                                 *)
(***************************************************************************)

\* queueMiso putting the new bytes in front of the pending ones
queueMisoFront(s, bytes) == [s EXCEPT !.misoQueue = bytes \o @]

\* func (sd *SdCard) queueMiso(bytes ...byte)
queueMiso(s, bytes) == [s EXCEPT !.misoQueue = @ \o bytes]

\* handleMisoByte reading the head of the queue without removing it
handleMisoBytePeek(s) ==
    IF Len(s.misoQueue) > 0
    THEN [s EXCEPT !.misoBuffer = s.misoQueue[1]]
    ELSE [s EXCEPT !.misoBuffer = 0]

\* handleMisoByte with the empty queue read as an idle-high line
handleMisoByteHigh(s) ==
    IF Len(s.misoQueue) > 0
    THEN [s EXCEPT !.misoBuffer = s.misoQueue[1],
                   !.misoQueue = SubSeq(s.misoQueue, 2, Len(s.misoQueue))]
    ELSE [s EXCEPT !.misoBuffer = 255]

\* func (sd *SdCard) handleMisoByte() byte; the byte returned is the new
\* misoBuffer of the card returned here
handleMisoByte(s) ==
    IF Len(s.misoQueue) > 0
    THEN [s EXCEPT !.misoBuffer = s.misoQueue[1],
                   !.misoQueue = SubSeq(s.misoQueue, 2, Len(s.misoQueue))]
    ELSE [s EXCEPT !.misoBuffer = 0]

\* handleMosiByte taking every byte with bit 6 set for the command
handleMosiByteMask(s) ==
    LET data == s.mosiBuffer
        s1 == [s EXCEPT !.mosiBuffer = 0]
    IN  [st  |-> IF BitAnd(data, 64) > 0
                 THEN queueMiso(s1, <<170, 171, 172, 173>>) ELSE s1,
         ret |-> data]

\* handleMosiByte queueing the response last byte first
handleMosiByteRev(s) ==
    LET data == s.mosiBuffer
        s1 == [s EXCEPT !.mosiBuffer = 0]
    IN  [st  |-> IF data = 64 THEN queueMiso(s1, <<173, 172, 171, 170>>) ELSE s1,
         ret |-> data]

\* func (sd *SdCard) handleMosiByte() byte
handleMosiByte(s) ==
    LET data == s.mosiBuffer
        s1 == [s EXCEPT !.mosiBuffer = 0]
    IN  [st  |-> IF data = 64 THEN queueMiso(s1, <<170, 171, 172, 173>>) ELSE s1,
         ret |-> data]

\* func NewSdCard(pm PinMap) (sd *SdCard, err error)
NewSdCard(pm) ==
    LET zero == [PinMap     |-> pm,
                 maskSclk   |-> Shl1(pm.Sclk),
                 maskMosi   |-> Shl1(pm.Mosi),
                 maskMiso   |-> Shl1(pm.Miso),
                 maskSs     |-> Shl1(pm.Ss),
                 clock      |-> FALSE,
                 index      |-> 7,
                 misoBuffer |-> 0,
                 misoQueue  |-> << >>,
                 readByte   |-> 0,
                 mosiBuffer |-> 0]
    IN  handleMisoByte(queueMiso(zero, <<0, 0, 0, 255>>))

\* Read as a clear-on-read latch
ReadClear(s) == [st |-> [s EXCEPT !.readByte = 0], ret |-> s.readByte]

\* func (sd *SdCard) Read() byte
Read(s) == [st |-> s, ret |-> s.readByte]

\* the rising-edge branch driving the line with inverted polarity
WriteRisingInverted(s) ==
    IF BitAnd(s.misoBuffer, Shl1(s.index)) > 0
    THEN [s EXCEPT !.readByte = 0]
    ELSE [s EXCEPT !.readByte = BitOr(0, s.maskMiso)]

\* the rising-edge branch shifting out least significant bit first
WriteRisingLsb(s) ==
    IF BitAnd(s.misoBuffer, Shl1(7 - s.index)) > 0
    THEN [s EXCEPT !.readByte = BitOr(0, s.maskMiso)]
    ELSE [s EXCEPT !.readByte = 0]

\* the rising-edge branch latching the masked buffer bit itself
WriteRisingRaw(s) ==
    [s EXCEPT !.readByte = BitAnd(s.misoBuffer, Shl1(s.index))]

\* the rising-edge branch of Write
WriteRising(s) ==
    IF BitAnd(s.misoBuffer, Shl1(s.index)) > 0
    THEN [s EXCEPT !.readByte = BitOr(0, s.maskMiso)]
    ELSE [s EXCEPT !.readByte = 0]

\* the falling-edge branch ending the byte one bit early
WriteFallingEarly(s, mosi) ==
    LET s1 == IF mosi
              THEN [s EXCEPT !.mosiBuffer = BitOr(@, Shl1(s.index))]
              ELSE s
    IN  IF s1.index = 1
        THEN LET m  == handleMosiByte(s1)
                 s2 == handleMisoByte(m.st)
             IN  [st  |-> [s2 EXCEPT !.index = 7],
                  log |-> << [mosi |-> m.ret, miso |-> s2.misoBuffer] >>]
        ELSE [st  |-> [s1 EXCEPT !.index = (@ - 1) % ByteMod],
              log |-> << >>]

\* the falling-edge branch printing the output byte just completed
WriteFallingLogOld(s, mosi) ==
    LET s1 == IF mosi
              THEN [s EXCEPT !.mosiBuffer = BitOr(@, Shl1(s.index))]
              ELSE s
    IN  IF s1.index = 0
        THEN LET m  == handleMosiByte(s1)
                 s2 == handleMisoByte(m.st)
             IN  [st  |-> [s2 EXCEPT !.index = 7],
                  log |-> << [mosi |-> m.ret, miso |-> s1.misoBuffer] >>]
        ELSE [st  |-> [s1 EXCEPT !.index = (@ - 1) % ByteMod],
              log |-> << >>]

\* the falling-edge branch assembling least significant bit first
WriteFallingLsb(s, mosi) ==
    LET s1 == IF mosi
              THEN [s EXCEPT !.mosiBuffer = BitOr(@, Shl1(7 - s.index))]
              ELSE s
    IN  IF s1.index = 0
        THEN LET m  == handleMosiByte(s1)
                 s2 == handleMisoByte(m.st)
             IN  [st  |-> [s2 EXCEPT !.index = 7],
                  log |-> << [mosi |-> m.ret, miso |-> s2.misoBuffer] >>]
        ELSE [st  |-> [s1 EXCEPT !.index = (@ - 1) % ByteMod],
              log |-> << >>]

\* the falling-edge branch decrementing the index after the last bit too
WriteFallingNoReset(s, mosi) ==
    LET s1 == IF mosi
              THEN [s EXCEPT !.mosiBuffer = BitOr(@, Shl1(s.index))]
              ELSE s
    IN  IF s1.index = 0
        THEN LET m  == handleMosiByte(s1)
                 s2 == handleMisoByte(m.st)
             IN  [st  |-> [s2 EXCEPT !.index = (@ - 1) % ByteMod],
                  log |-> << [mosi |-> m.ret, miso |-> s2.misoBuffer] >>]
        ELSE [st  |-> [s1 EXCEPT !.index = (@ - 1) % ByteMod],
              log |-> << >>]

\* the falling-edge branch of Write; log is what logExchange prints
WriteFalling(s, mosi) ==
    LET s1 == IF mosi
              THEN [s EXCEPT !.mosiBuffer = BitOr(@, Shl1(s.index))]
              ELSE s
    IN  IF s1.index = 0
        THEN LET m  == handleMosiByte(s1)
                 s2 == handleMisoByte(m.st)
             IN  [st  |-> [s2 EXCEPT !.index = 7],
                  log |-> << [mosi |-> m.ret, miso |-> s2.misoBuffer] >>]
        ELSE [st  |-> [s1 EXCEPT !.index = (@ - 1) % ByteMod],
              log |-> << >>]

\* Write with the two edges exchanged
WriteSwapped(s, data) ==
    LET cs == BitAnd(data, s.maskSs) > 0
    IN  IF cs
        THEN [st |-> s, log |-> << >>]
        ELSE LET mosi    == BitAnd(data, s.maskMosi) > 0
                 clock   == BitAnd(data, s.maskSclk) > 0
                 rising  == s.clock /\ ~clock
                 falling == ~s.clock /\ clock
                 s1      == [s EXCEPT !.clock = clock]
                 s2      == IF rising THEN WriteRising(s1) ELSE s1
             IN  IF falling
                 THEN WriteFalling(s2, mosi)
                 ELSE [st |-> s2, log |-> << >>]

\* Write shifting on the clock level instead of the clock edge
WriteLevel(s, data) ==
    LET cs == BitAnd(data, s.maskSs) > 0
    IN  IF cs
        THEN [st |-> s, log |-> << >>]
        ELSE LET mosi    == BitAnd(data, s.maskMosi) > 0
                 clock   == BitAnd(data, s.maskSclk) > 0
                 rising  == clock
                 falling == ~clock
                 s1      == [s EXCEPT !.clock = clock]
                 s2      == IF rising THEN WriteRising(s1) ELSE s1
             IN  IF falling
                 THEN WriteFalling(s2, mosi)
                 ELSE [st |-> s2, log |-> << >>]

\* Write taking the clock for low while the card is deselected
WriteIdleLow(s, data) ==
    LET cs == BitAnd(data, s.maskSs) > 0
    IN  IF cs
        THEN [st |-> [s EXCEPT !.clock = FALSE], log |-> << >>]
        ELSE LET mosi    == BitAnd(data, s.maskMosi) > 0
                 clock   == BitAnd(data, s.maskSclk) > 0
                 rising  == ~s.clock /\ clock
                 falling == s.clock /\ ~clock
                 s1      == [s EXCEPT !.clock = clock]
                 s2      == IF rising THEN WriteRising(s1) ELSE s1
             IN  IF falling
                 THEN WriteFalling(s2, mosi)
                 ELSE [st |-> s2, log |-> << >>]

\* Write reading data-out through a mask that also covers data-in
WriteMosiMiso(s, data) ==
    LET cs == BitAnd(data, s.maskSs) > 0
    IN  IF cs
        THEN [st |-> s, log |-> << >>]
        ELSE LET mosi    == BitAnd(data, BitOr(s.maskMosi, s.maskMiso)) > 0
                 clock   == BitAnd(data, s.maskSclk) > 0
                 rising  == ~s.clock /\ clock
                 falling == s.clock /\ ~clock
                 s1      == [s EXCEPT !.clock = clock]
                 s2      == IF rising THEN WriteRising(s1) ELSE s1
             IN  IF falling
                 THEN WriteFalling(s2, mosi)
                 ELSE [st |-> s2, log |-> << >>]

\* Write recording the clock level before looking at select
WriteClockFirst(s, data) ==
    LET cs      == BitAnd(data, s.maskSs) > 0
        mosi    == BitAnd(data, s.maskMosi) > 0
        clock   == BitAnd(data, s.maskSclk) > 0
        rising  == ~s.clock /\ clock
        falling == s.clock /\ ~clock
        s1      == [s EXCEPT !.clock = clock]
        s2      == IF rising THEN WriteRising(s1) ELSE s1
    IN  IF cs
        THEN [st |-> s1, log |-> << >>]
        ELSE IF falling
        THEN WriteFalling(s2, mosi)
        ELSE [st |-> s2, log |-> << >>]

\* func (sd *SdCard) Write(data byte)
Write(s, data) ==
    LET cs == BitAnd(data, s.maskSs) > 0
    IN  IF cs
        THEN [st |-> s, log |-> << >>]
        ELSE LET mosi    == BitAnd(data, s.maskMosi) > 0
                 clock   == BitAnd(data, s.maskSclk) > 0
                 rising  == ~s.clock /\ clock
                 falling == s.clock /\ ~clock
                 s1      == [s EXCEPT !.clock = clock]
                 s2      == IF rising THEN WriteRising(s1) ELSE s1
             IN  IF falling
                 THEN WriteFalling(s2, mosi)
                 ELSE [st |-> s2, log |-> << >>]

(***************************************************************************)
(* State.                                                                  *)
(***************************************************************************)
VARIABLES
    sd,         \* the card
    op,         \* the last call: "new", "read" ("reread" after a Read), or
                \* the kind of Write
    exchange,   \* the exchange lines printed by the last call
    presented,  \* data-out levels at the falling edges of the byte in
                \* progress, or of the byte the last call completed
    lineBits,   \* data-in levels read after the rising edges of the byte in
                \* progress
    lastRead,   \* what Read returned, if Read was the last call; else NoRead
    cmd,        \* the bytes loaded since a completed input byte 0x40
    powerOn,    \* the output bytes completed since construction
    selClk      \* the clock level the host drove in its last write made
                \* with select active (low before any)

vars == <<sd, op, exchange, presented, lineBits, lastRead, cmd, powerOn,
          selClk>>

NoRead == -1

NoCmd == [n |-> -1, got |-> << >>]

Past == [bytes |-> << >>, clean |-> FALSE, past |-> TRUE]

\* how the host sees a Write: by the levels it drives and the clock level of
\* the previous write the card took
WriteKind(priorClock, ss, clk) ==
    IF ss THEN "idle"
    ELSE IF ~priorClock /\ clk THEN "rising"
    ELSE IF priorClock /\ ~clk THEN "falling"
    ELSE "none"

\* the level the card shows on the data-into-host pin
Line(s) == Bit(Read(s).ret, s.PinMap.Miso)

Init ==
    /\ \E pm \in PinMaps : sd = NewSdCard(pm)
    /\ op = "new"
    /\ exchange = << >>
    /\ presented = << >>
    /\ lineBits = << >>
    /\ lastRead = NoRead
    /\ cmd = NoCmd
    /\ powerOn = [bytes |-> << >>, clean |-> TRUE, past |-> FALSE]
    /\ selClk = FALSE

\* the levels presented in the byte in progress
InProgress(p) == IF Len(p) = 8 THEN << >> ELSE p

\* the 8th falling edge of a byte, counted by the host
Completes(kind) == kind = "falling" /\ Len(InProgress(presented)) = 7

\* the tracker of the bytes loaded after a completed 0x40: started by a
\* 0x40 that completes while no other is being followed, fed for 4 bytes,
\* dropped by the call that follows the last of them
NextCmd(completes, inByte, qlen, loaded) ==
    IF ~completes
    THEN (IF Len(cmd.got) = 4 THEN NoCmd ELSE cmd)
    ELSE IF cmd # NoCmd /\ Len(cmd.got) < 4
    THEN [cmd EXCEPT !.got = Append(@, loaded)]
    ELSE IF inByte = 64
    THEN [n |-> qlen, got |-> <<loaded>>]
    ELSE NoCmd

\* the record of the first MaxCompleted output bytes completed after
\* construction, dropped by the call that follows the last of them
NextPowerOn(completes, inByte, outByte) ==
    IF powerOn.past \/ Len(powerOn.bytes) >= MaxCompleted THEN Past
    ELSE IF ~completes THEN powerOn
    ELSE [bytes |-> Append(powerOn.bytes, outByte),
          clean |-> powerOn.clean /\ inByte # 64,
          past  |-> FALSE]

WriteStep ==
    \E ss, clk, mosi, rest \in BOOLEAN :
        LET data == PortByte(sd.PinMap, ss, clk, mosi, rest)
            w    == Write(sd, data)
            kind == WriteKind(sd.clock, ss, clk)
            lvl  == IF mosi THEN 1 ELSE 0
            pres == IF kind = "falling"
                    THEN Append(InProgress(presented), lvl)
                    ELSE InProgress(presented)
        IN  /\ Len(w.st.misoQueue) <= MaxQueue
            /\ sd' = w.st
            /\ op' = kind
            /\ exchange' = w.log
            /\ presented' = pres
            /\ lineBits' = IF kind = "rising" THEN Append(lineBits, Line(w.st))
                           ELSE IF Completes(kind) THEN << >>
                           ELSE lineBits
            /\ lastRead' = NoRead
            /\ cmd' = NextCmd(Completes(kind), BitsToByte(pres),
                              Len(sd.misoQueue), w.st.misoBuffer)
            /\ powerOn' = NextPowerOn(Completes(kind), BitsToByte(pres),
                                      BitsToByte(lineBits))
            /\ selClk' = IF ss THEN selClk ELSE clk

ReadStep ==
    LET r == Read(sd)
    IN  /\ sd' = r.st
        /\ lastRead' = r.ret
        /\ op' = IF op \in {"read", "reread"} THEN "reread" ELSE "read"
        /\ exchange' = << >>
        /\ presented' = InProgress(presented)
        /\ cmd' = NextCmd(FALSE, 0, 0, 0)
        /\ powerOn' = NextPowerOn(FALSE, 0, 0)
        /\ UNCHANGED <<lineBits, selClk>>

Next == WriteStep \/ ReadStep

Spec == Init /\ [][Next]_vars

TypeOK ==
    /\ sd.index \in Byte
    /\ sd.misoBuffer \in Byte
    /\ sd.mosiBuffer \in Byte
    /\ sd.readByte \in Byte
    /\ sd.clock \in BOOLEAN
    /\ op \in {"new", "read", "reread", "idle", "none", "rising", "falling"}

(***************************************************************************)
(* Properties.                                                             *)
(***************************************************************************)

\* the response the card queues for the command byte 0x40
Response == <<170, 171, 172, 173>>

\* C1 (idle invariant): a Write whose port byte has the select bit set
\* leaves every field of the card as it was, so Read returns after it what
\* it returned before it; by induction the same holds of any sequence of
\* such writes.
C1_IdleInvariant ==
    [][op' = "idle" => (sd' = sd /\ Read(sd').ret = Read(sd).ret)]_vars

\* a deselected write arrived in the middle of a byte, with the clock high,
\* some input bits already captured and the output line driven
C1_Witness ==
    /\ op = "idle"
    /\ sd.index = 3
    /\ sd.clock
    /\ sd.mosiBuffer # 0
    /\ sd.readByte # 0

\* C2 (bit framing): the byte handed to the byte-boundary handler, as
\* printed in the exchange line, is printed by the write that makes the
\* eighth falling edge of a byte and by no other, and it is the byte whose
\* bits, most significant first, are the data-out levels the host presented
\* at the 8 falling edges.
C2_BitFraming ==
    /\ (exchange # << >>) <=> (Len(presented) = 8)
    /\ exchange # << >> =>
          /\ Len(exchange) = 1
          /\ exchange[1].mosi = BitsToByte(presented)

\* the host presented 1,0,1,0,0,1,0,1 and the handler received 0xA5
C2_Witness ==
    /\ exchange # << >>
    /\ presented = <<1, 0, 1, 0, 0, 1, 0, 1>>
    /\ exchange[1].mosi = 165

\* C3 (output shift law): the levels of the data-into-host bit of Read
\* after the rising edges of a byte are bit 7, bit 6, ... of the output
\* buffer loaded for that byte, one per rising edge and at most 8, whatever
\* the host presented at the falling edges in between.
C3_OutputShift ==
    /\ Len(lineBits) <= 8
    /\ \A k \in 1 .. Len(lineBits) : lineBits[k] = Bit(sd.misoBuffer, 8 - k)
    /\ Len(lineBits) = Len(InProgress(presented)) + (IF sd.clock THEN 1 ELSE 0)

\* all 8 bits of the output byte 0xAC were read while the host sent
\* something other than zeros
C3_Witness ==
    /\ Len(lineBits) = 8
    /\ sd.misoBuffer = 172
    /\ lineBits = <<1, 0, 1, 0, 1, 1, 0, 0>>
    /\ BitsToByte(presented) # 0

\* C4 as stated (command trigger): whenever the host has completed the
\* input byte 0x40, the 4 bytes loaded into the output buffer from that
\* boundary on are 0xAA, 0xAB, 0xAC, 0xAD.
C4_AsStated ==
    Len(cmd.got) = 4 => cmd.got = Response

\* C4 amended: when the host completes the input byte 0x40 while the
\* output queue is empty, the 4 bytes loaded into the output buffer from
\* that boundary on are 0xAA, 0xAB, 0xAC, 0xAD.  (A 0x40 that completes
\* within the 4 bytes of an earlier one finds the queue non-empty, so every
\* 0x40 completed on an empty queue is followed by cmd.)
C4_CommandTrigger ==
    (Len(cmd.got) = 4 /\ cmd.n = 0) => cmd.got = Response

\* a 0x40 completed on an empty queue and 4 bytes were loaded since
C4_Witness ==
    /\ cmd.n = 0
    /\ Len(cmd.got) = 4
    /\ powerOn.past

\* C5 (power-on sequence): when no completed input byte was 0x40, the first
\* three output bytes the card shifts out after construction, read off the
\* line bit by bit, are 0x00, 0x00, 0xFF.
C5_PowerOn ==
    (Len(powerOn.bytes) = 3 /\ powerOn.clean) =>
        SubSeq(powerOn.bytes, 1, 3) = <<0, 0, 255>>

\* C6 (initial state): right after construction bitIndex = 7, outputBuffer
\* = 0x00, outputQueue = [0x00, 0xFF], inputBuffer = 0x00 and priorClock is
\* false.
C6_InitialState ==
    op = "new" =>
        /\ sd.index = 7
        /\ sd.misoBuffer = 0
        /\ sd.misoQueue = <<0, 255>>
        /\ sd.mosiBuffer = 0
        /\ sd.clock = FALSE

\* C7 (queue default): a write that completes an input byte other than
\* 0x40 while the output queue is empty loads 0x00 into the output buffer,
\* leaves the queue empty and prints its exchange line as every other
\* boundary does.
C7_QueueDefault ==
    [][(Len(presented') = 8 /\ sd.misoQueue = << >>
            /\ BitsToByte(presented') # 64) =>
          (/\ sd'.misoBuffer = 0
           /\ sd'.misoQueue = << >>
           /\ Len(exchange') = 1
           /\ exchange'[1].miso = 0)]_vars

\* a byte other than 0x40 completed after the power-on bytes were gone and
\* no response was pending: 0x00 was loaded from the empty queue
C7_Witness ==
    /\ Len(presented) = 8
    /\ BitsToByte(presented) = 255
    /\ powerOn.past
    /\ cmd = NoCmd
    /\ sd.misoBuffer = 0
    /\ sd.misoQueue = << >>

\* C8 (Read is pure and idempotent): Read changes no field of the card,
\* and a Read that follows a Read returns what that one returned.
C8_ReadPure ==
    [][op' \in {"read", "reread"} =>
          (/\ sd' = sd
           /\ op \in {"read", "reread"} => lastRead' = lastRead)]_vars

\* Read was called twice in a row while the line was driven high
C8_Witness ==
    /\ op = "reread"
    /\ lastRead # 0
    /\ sd.readByte = lastRead

\* C9 (Read encoding): Read returns 0x00 or the byte with only the
\* data-into-host bit set, and that byte has a single bit set for every
\* data-into-host pin index in 0..7.
C9_ReadEncoding ==
    /\ Read(sd).ret \in {0, Pin(sd.PinMap.Miso)}
    /\ lastRead \in {NoRead, 0, Pin(sd.PinMap.Miso)}
    /\ \A m \in 0 .. 7 :
          NewSdCard([sd.PinMap EXCEPT !.Miso = m]).maskMiso = Pin(m)

\* Read returned the data-into-host mask while the output buffer bit being
\* shifted was not the mask's own bit
C9_Witness ==
    /\ lastRead = Pin(sd.PinMap.Miso)
    /\ sd.index # sd.PinMap.Miso
    /\ sd.misoBuffer = 171

\* C10 (bitIndex invariant): bitIndex is always in 0..7, and it is 7 right
\* after construction and right after every write that completes a byte.
C10_BitIndex ==
    /\ sd.index \in 0 .. 7
    /\ op = "new" => sd.index = 7
    /\ (exchange # << >> \/ Len(presented) = 8) => sd.index = 7

\* a write completed a byte, long after construction
C10_Witness ==
    /\ exchange # << >>
    /\ op = "falling"
    /\ powerOn.past
    /\ sd.index = 7

\* the queue with its head removed, empty if it was empty
Rest(q) == IF q = << >> THEN << >> ELSE Tail(q)

\* C11 (unrecognized command byte): a write that completes an input byte
\* other than 0x40 enqueues nothing: the queue after it is the queue before
\* it less its head (still empty if it was empty), and the write prints
\* its exchange line, with that byte, as every boundary does.
C11_Unrecognized ==
    [][(Len(presented') = 8 /\ BitsToByte(presented') # 64) =>
          (/\ sd'.misoQueue = Rest(sd.misoQueue)
           /\ Len(exchange') = 1
           /\ exchange'[1].mosi = BitsToByte(presented'))]_vars

\* the byte 0x41 completed while response bytes were pending: the head
\* 0xAB was taken and nothing was added
C11_Witness ==
    /\ Len(presented) = 8
    /\ BitsToByte(presented) = 65
    /\ sd.misoBuffer = 171
    /\ sd.misoQueue = <<172, 173>>

\* C12 (FIFO order): at every byte boundary the byte loaded into the output
\* buffer is the head of the queue, after the response bytes of a completed
\* 0x40 were appended behind the pending bytes in argument order, or 0x00
\* if that queue is empty, and only that head leaves the queue; between
\* boundaries neither the queue nor the output buffer changes.  So the
\* bytes are loaded in the order they were enqueued.
C12_Fifo ==
    [][IF Len(presented') = 8
       THEN LET q == sd.misoQueue \o (IF BitsToByte(presented') = 64
                                      THEN Response ELSE << >>)
            IN  /\ sd'.misoBuffer = (IF q = << >> THEN 0 ELSE Head(q))
                /\ sd'.misoQueue = Rest(q)
       ELSE /\ sd'.misoQueue = sd.misoQueue
            /\ sd'.misoBuffer = sd.misoBuffer]_vars

\* 0x40 completed while 0xFF was still pending: 0xFF was loaded and the
\* whole response waits behind it
C12_Witness ==
    /\ cmd.n = 1
    /\ cmd.got = <<255>>
    /\ sd.misoBuffer = 255
    /\ sd.misoQueue = Response

\* C13 as stated (edge assignment of the purpose section): a data-out bit
\* enters the input byte only on a rising clock edge, and the output line
\* changes only on a falling clock edge.
C13_AsStated ==
    [][/\ sd'.mosiBuffer > sd.mosiBuffer => op' = "rising"
       /\ sd'.readByte # sd.readByte => op' = "falling"]_vars

\* C13 amended: the host's data-out bit is sampled into the input byte on
\* the falling clock edge, and the output line is driven on the rising
\* clock edge: a bit enters the input byte only on a falling edge, and does
\* so on every falling edge before the eighth at which data-out is high;
\* the output line changes only on a rising edge.
C13_EdgeAssignment ==
    [][/\ sd'.mosiBuffer > sd.mosiBuffer => op' = "falling"
       /\ sd'.readByte # sd.readByte => op' = "rising"
       /\ (op' = "falling" /\ Len(presented') < 8
              /\ presented'[Len(presented')] = 1) =>
             sd'.mosiBuffer = sd.mosiBuffer + 2 ^ sd.index]_vars

\* a falling edge just sampled a high data-out bit while the line still
\* shows the high bit driven at the rising edge before it
C13_Witness ==
    /\ op = "falling"
    /\ Len(presented) \in 1 .. 7
    /\ presented[Len(presented)] = 1
    /\ sd.mosiBuffer # 0
    /\ sd.readByte # 0

\* C14 (no-edge write): a Write with select active whose clock bit equals
\* the prior clock level changes no field of the card, whatever the
\* data-out level; the output line is as it was.
C14_NoEdge ==
    [][op' = "none" =>
          (/\ sd' = sd
           /\ Line(sd') = Line(sd)
           /\ exchange' = << >>)]_vars

\* a selected write without a clock edge arrived in the middle of a byte
\* with the clock high and the line driven
C14_Witness ==
    /\ op = "none"
    /\ sd.index = 5
    /\ sd.clock
    /\ sd.mosiBuffer # 0
    /\ sd.readByte # 0

\* C15 (rising edge effect): a Write with select active that raises the
\* clock sets the output line to bit bitIndex of the output buffer and the
\* prior clock level to high, and changes nothing else: no bit is
\* captured and no byte-boundary logic runs.
C15_RisingEdge ==
    [][op' = "rising" =>
          (/\ sd' = [sd EXCEPT
                        !.clock = TRUE,
                        !.readByte = IF Bit(sd.misoBuffer, sd.index) = 1
                                     THEN Pin(sd.PinMap.Miso) ELSE 0]
           /\ exchange' = << >>)]_vars

\* a rising edge in the middle of a byte drove the line high
C15_Witness ==
    /\ op = "rising"
    /\ sd.index = 2
    /\ sd.readByte # 0
    /\ sd.mosiBuffer # 0

\* C16 (byte-boundary cadence): counting the falling edges the host makes
\* with select active since construction, the byte-boundary handler runs
\* on every eighth of them and on no other write; a boundary leaves the
\* input buffer 0x00 and bitIndex 7; every other falling edge lowers
\* bitIndex by exactly one and leaves the output buffer, the queue and the
\* output line as they were.
C16_Cadence ==
    [][/\ (exchange' # << >>) <=>
             (op' = "falling" /\ Len(InProgress(presented)) = 7)
       /\ exchange' # << >> =>
             (sd'.mosiBuffer = 0 /\ sd'.index = 7)
       /\ (op' = "falling" /\ exchange' = << >>) =>
             (/\ sd'.index = sd.index - 1
              /\ sd'.misoBuffer = sd.misoBuffer
              /\ sd'.misoQueue = sd.misoQueue
              /\ sd'.readByte = sd.readByte)]_vars

\* the third falling edge of a byte after the power-on bytes, while a
\* response byte is being shifted out
C16_Witness ==
    /\ op = "falling"
    /\ Len(presented) = 3
    /\ sd.index = 4
    /\ powerOn.past
    /\ sd.misoBuffer = 171

\* C17 (exchange event): the write that completes a byte, and no other
\* call, prints exactly one exchange line; the line carries the completed
\* input byte and the byte just loaded into the output buffer, loaded after
\* the command took effect: for a 0x40 completed on an empty queue it is
\* the first response byte 0xAA.
C17_ExchangeEvent ==
    [][IF Len(presented') = 8
       THEN /\ Len(exchange') = 1
            /\ exchange'[1].mosi = BitsToByte(presented')
            /\ exchange'[1].miso = sd'.misoBuffer
            /\ (BitsToByte(presented') = 64 /\ sd.misoQueue = << >>) =>
                  exchange'[1].miso = 170
       ELSE exchange' = << >>]_vars

\* the line printed for a 0x40 completed on an empty queue
C17_Witness ==
    /\ exchange = << [mosi |-> 64, miso |-> 170] >>
    /\ cmd.n = 0

\* C18 (clock bookkeeping across deselection): the card's prior clock level
\* is always the clock level of the host's last write made with select
\* active, whatever the host did to the clock while the card was
\* deselected; so a selected write that follows deselected writes is an
\* edge exactly when its clock level differs from that level, and it goes
\* on from the bitIndex and input buffer held before the deselection: a
\* rising edge leaves both, a falling edge adds at most the bit at
\* bitIndex and lowers bitIndex by one (or completes the byte).
C18_ClockBookkeeping ==
    /\ [](sd.clock = selClk)
    /\ [][op = "idle" =>
            (/\ op' = "rising" =>
                  (sd'.index = sd.index /\ sd'.mosiBuffer = sd.mosiBuffer)
             /\ (op' = "falling" /\ sd.index > 0) =>
                  (/\ sd'.index = sd.index - 1
                   /\ sd'.mosiBuffer \in {sd.mosiBuffer,
                                          sd.mosiBuffer + 2 ^ sd.index})
             /\ (op' = "falling" /\ sd.index = 0) =>
                  (exchange' # << >> /\
                   exchange'[1].mosi \in {sd.mosiBuffer, sd.mosiBuffer + 1}))]_vars

\* the card was deselected in the middle of a byte with the clock high;
\* the first selected write with the clock low will be a falling edge
C18_Witness ==
    /\ op = "idle"
    /\ selClk
    /\ sd.clock
    /\ sd.index = 6
    /\ sd.mosiBuffer = 128

\* the port bits the card has no input on: data-into-host and the four
\* unmapped bits
OtherBits(pm) == (0 .. 7) \ {pm.Ss, pm.Sclk, pm.Mosi}

\* the port bytes that agree with base on select, clock and data-out and
\* have one other bit, or every other bit, set
Variants(pm, base) ==
    {base + Pin(i) : i \in OtherBits(pm)}
    \cup {base + 255 - Pin(pm.Ss) - Pin(pm.Sclk) - Pin(pm.Mosi)}

\* C19 (port-bit independence): in every reachable state, for every level
\* of select, clock and data-out, Write gives the same card, the same
\* printed line and the same following Read for the port byte with all
\* other bits clear as for the port bytes with the data-into-host bit, an
\* unmapped bit or all of them set.
C19_PortBits ==
    \A ss, clk, mosi \in BOOLEAN :
        LET base == PortByte(sd.PinMap, ss, clk, mosi, FALSE)
            w    == Write(sd, base)
        IN  \A d \in Variants(sd.PinMap, base) :
               /\ Write(sd, d) = w
               /\ Read(Write(sd, d).st).ret = Read(w.st).ret

\* the last falling edge of the byte 0x40 is due on an empty queue: the
\* write making it with every other port bit set completes the command
\* like the write with the other bits clear
C19_Witness ==
    /\ sd.clock
    /\ sd.index = 0
    /\ sd.mosiBuffer = 64
    /\ sd.misoQueue = << >>
    /\ Write(sd, PortByte(sd.PinMap, FALSE, FALSE, FALSE, TRUE)).log
          = << [mosi |-> 64, miso |-> 170] >>
    /\ Write(sd, PortByte(sd.PinMap, FALSE, FALSE, FALSE, FALSE)).st.misoQueue
          = <<171, 172, 173>>

\* the write that makes a falling edge with data-out low
FallingLow(s) == Write(s, PortByte(s.PinMap, FALSE, FALSE, FALSE, FALSE))

\* C20 (queue length accounting): the queue changes only at byte
\* boundaries; a boundary completing 0x40 makes it 3 longer, any other
\* boundary 1 shorter, or leaves it empty.  The card has no upper bound on
\* the queue: wherever the last falling edge of a 0x40 is due, also where
\* this exploration stops, Write makes the queue 3 longer.
C20_QueueLength ==
    /\ [][IF Len(presented') # 8
          THEN sd'.misoQueue = sd.misoQueue
          ELSE IF BitsToByte(presented') = 64
          THEN Len(sd'.misoQueue) = Len(sd.misoQueue) + 3
          ELSE Len(sd'.misoQueue) =
                  (IF Len(sd.misoQueue) = 0 THEN 0
                   ELSE Len(sd.misoQueue) - 1)]_vars
    /\ []((sd.clock /\ sd.index = 0 /\ sd.mosiBuffer = 64) =>
             Len(FallingLow(sd).st.misoQueue) = Len(sd.misoQueue) + 3)

\* 0x40 completed on an empty queue: 4 bytes were appended and 1 loaded
C20_Witness ==
    /\ op = "falling"
    /\ cmd.n = 0
    /\ Len(cmd.got) = 1
    /\ Len(sd.misoQueue) = 3
====
